---- MODULE Spec2Model ----
(***************************************************************************)
(* A model of ustl's ufunction.h: the standard functors, the function      *)
(* pointer wrappers, the negator, the argument binders, the member         *)
(* function adaptors and the member variable adaptors.                     *)
(*                                                                         *)
(* A functor object is a record [cls |-> <class template>, <its fields>].  *)
(* C++ values of the built-in types are integers (bool is 0 / 1, as in     *)
(* C++); an instance of the host class T lives in the store mem and is     *)
(* named by its identity, which is what a T*, a T& or a const T& holds.    *)
(***************************************************************************)
EXTENDS Integers, Sequences, FiniteSets, TLC

MaxVal == 1
MaxCmp == 2

Vals == 0..MaxVal            \* the int values the callers use
CmpVals == 0..MaxCmp         \* the values the comparison functors are applied to
Objs == {1, 2}               \* the two instances of the host class T
Members == {"x", "y"}        \* T's int data members (VT T::*)
Types == {"int", "mask"}     \* value types T of the standard functors

VARIABLES mem, g, h, og, oh, result

vars == <<mem, g, h, og, oh, result>>

----------------------------------------------------------------------------
(* C++ conversions between bool and int *)
B2I(b) == IF b THEN 1 ELSE 0
I2B(n) == n # 0

(* a C++ type: base type and how it is passed / held *)
Ty(t, q) == [t |-> t, q |-> q]
IsPtr(ty) == ty.q \in {"ptr", "cptr"}
IsRef(ty) == ty.q \in {"ref", "cref"}

(* what the caller writes for a parameter of the type: an int expression,
   an instance (an lvalue of T) or the address of one *)
Kind(ty) == IF ty.t # "T" THEN "val" ELSE IF IsPtr(ty) THEN "ptr" ELSE "ref"
ArgDomain(ty) == IF ty.t = "T" THEN Objs ELSE IF ty.t = "mask" THEN CmpVals ELSE Vals

----------------------------------------------------------------------------
(* operator< and operator== of the value type T.  "int" is totally ordered;
   "mask" is a bit set ordered by proper inclusion, so two values may be
   unequal and incomparable. *)
RECURSIVE BitSubset(_, _)
BitSubset(a, b) ==
    IF a = 0 THEN TRUE
    ELSE (a % 2 <= b % 2) /\ BitSubset(a \div 2, b \div 2)

Lt(T, a, b) == IF T = "int" THEN a < b ELSE a # b /\ BitSubset(a, b)
Eq(T, a, b) == a = b

(* the standard functors, lines 62-77 *)
plus(T, a, b) == a + b
minus(T, a, b) == a - b
multiplies(T, a, b) == a * b
logical_and(T, a, b) == B2I(I2B(a) /\ I2B(b))
logical_or(T, a, b) == B2I(I2B(a) \/ I2B(b))
negate(T, a) == 0 - a
logical_not(T, a) == B2I(~I2B(a))
equal_to(T, a, b) == B2I(Eq(T, a, b))
not_equal_to(T, a, b) == B2I(~Eq(T, a, b))
greater(T, a, b) == B2I(Lt(T, b, a))
less(T, a, b) == B2I(Lt(T, a, b))
greater_equal_notless(T, a, b) == B2I(~Lt(T, a, b))
greater_equal(T, a, b) == B2I(Lt(T, b, a) \/ Eq(T, a, b))
less_equal(T, a, b) == B2I(Lt(T, a, b) \/ Eq(T, a, b))
compare(T, a, b) == IF Lt(T, a, b) THEN -1 ELSE IF Eq(T, a, b) THEN 0 ELSE 1

ArithClasses == {"plus", "minus", "multiplies", "logical_and", "logical_or"}
CmpClasses == {"equal_to", "not_equal_to", "greater", "less",
               "greater_equal", "less_equal", "compare"}
Std2Classes == ArithClasses \cup CmpClasses
Std1Classes == {"negate", "logical_not"}

Std2(cls, T, a, b) ==
    CASE cls = "plus" -> plus(T, a, b)
      [] cls = "minus" -> minus(T, a, b)
      [] cls = "multiplies" -> multiplies(T, a, b)
      [] cls = "logical_and" -> logical_and(T, a, b)
      [] cls = "logical_or" -> logical_or(T, a, b)
      [] cls = "equal_to" -> equal_to(T, a, b)
      [] cls = "not_equal_to" -> not_equal_to(T, a, b)
      [] cls = "greater" -> greater(T, a, b)
      [] cls = "less" -> less(T, a, b)
      [] cls = "greater_equal" -> greater_equal(T, a, b)
      [] cls = "less_equal" -> less_equal(T, a, b)
      [] cls = "compare" -> compare(T, a, b)

Std1(cls, T, a) ==
    CASE cls = "negate" -> negate(T, a)
      [] cls = "logical_not" -> logical_not(T, a)

(* a default-constructed standard functor, e.g. less<int>() *)
StdFunctor(cls, T) == [cls |-> cls, T |-> T]

----------------------------------------------------------------------------
\* The free functions the callers wrap, of one and of two arguments; a
\* function pointer is the function's name.
Fn1 == {"square", "succ"}
Fn2 == {"sub"}
FnPtr(name) == [cls |-> "fnptr", name |-> name]
FnArity(pfn) == IF pfn.name \in Fn1 THEN 1 ELSE 2
FnApply1(pfn, a) == IF pfn.name = "square" THEN a * a ELSE a + 1
FnApply2(pfn, a, b) == a - b

(* The host class T: two int data members and the methods the callers wrap.
   MethodSig gives constness, the number of arguments, how the argument is
   passed and the return type of each. *)
Methods0 == {"isEven", "getY", "bump"}
Methods1 == {"addTo", "setX", "plusX", "minusX"}
MethodSig(m) ==
    CASE m = "isEven" -> [const |-> TRUE,  nargs |-> 0, byref |-> FALSE, ret |-> "bool"]
      [] m = "getY"   -> [const |-> TRUE,  nargs |-> 0, byref |-> FALSE, ret |-> "int"]
      [] m = "bump"   -> [const |-> FALSE, nargs |-> 0, byref |-> FALSE, ret |-> "int"]
      [] m = "addTo"  -> [const |-> FALSE, nargs |-> 1, byref |-> TRUE,  ret |-> "int"]
      [] m = "setX"   -> [const |-> FALSE, nargs |-> 1, byref |-> FALSE, ret |-> "int"]
      [] m = "plusX"  -> [const |-> TRUE,  nargs |-> 1, byref |-> TRUE,  ret |-> "int"]
      [] m = "minusX" -> [const |-> TRUE,  nargs |-> 1, byref |-> FALSE, ret |-> "int"]

Wrap(n) == n % (MaxVal + 1)

(* the value a method returns when run on an instance in state obj *)
MethodRet(m, obj, v) ==
    CASE m = "isEven" -> B2I(obj.x % 2 = 0)
      [] m = "getY"   -> obj.y
      [] m = "bump"   -> Wrap(obj.x + 1)
      [] m = "addTo"  -> Wrap(obj.x + v)
      [] m = "setX"   -> obj.x
      [] m = "plusX"  -> obj.x + v
      [] m = "minusX" -> v - obj.x

(* the state of the instance after the method ran *)
MethodPost(m, obj, v) ==
    CASE m = "bump"  -> [obj EXCEPT !.x = Wrap(obj.x + 1)]
      [] m = "addTo" -> [obj EXCEPT !.x = Wrap(obj.x + v)]
      [] m = "setX"  -> [obj EXCEPT !.x = v]
      [] OTHER       -> obj

\* the data member pv of instance o
MemberOf(heap, o, pv) == IF pv = "x" THEN heap[o].x ELSE heap[o].y

----------------------------------------------------------------------------
(* The class templates.  Each constructor builds the record of the fields
   the class declares. *)
MemFunClasses == {"mem_fun_t", "const_mem_fun_t", "mem_fun_ref_t", "const_mem_fun_ref_t"}
ExtMemFunClasses == {"ext_mem_fun_t", "ext_mem_funbv_t",
                     "const_ext_mem_fun_t", "const_ext_mem_funbv_t"}
MemVar1Classes == {"mem_var1_t", "const_mem_var1_t"}
MemVar2Classes == {"mem_var2_t", "const_mem_var2_t"}

functor1(pfn) == [cls |-> "functor1", m_pfn |-> pfn]
functor2(pfn) == [cls |-> "functor2", m_pfn |-> pfn]
unary_negate(pfn) == [cls |-> "unary_negate", m_pfn |-> pfn]
binder1st(pfn, v) == [cls |-> "binder1st", m_pfn |-> pfn, m_Value |-> v]
binder2nd(pfn, v) == [cls |-> "binder2nd", m_pfn |-> pfn, m_Value |-> v]
MemFunT(cls, pf) == [cls |-> cls, m_pf |-> pf]
ExtMemFunT(cls, t, pf) == [cls |-> cls, m_t |-> t, m_pf |-> pf]
mem_var1_t(pv, pfn) == [cls |-> "mem_var1_t", m_pv |-> pv, m_pfn |-> pfn]
const_mem_var1_t(pv, pfn) == [cls |-> "const_mem_var1_t", m_pv |-> pv, m_pfn |-> pfn]
mem_var2_t(pv, pfn) == [cls |-> "mem_var2_t", m_pv |-> pv, m_pfn |-> pfn]
const_mem_var2_t(pv, pfn) == [cls |-> "const_mem_var2_t", m_pv |-> pv, m_pfn |-> pfn]

(* the macro arguments of the four MEM_FUN_T instantiations, lines 237-240 *)
ArgType(cls) ==
    CASE cls = "mem_fun_t"           -> Ty("T", "ptr")
      [] cls = "const_mem_fun_t"     -> Ty("T", "cptr")
      [] cls = "mem_fun_ref_t"       -> Ty("T", "ptr")
      [] cls = "const_mem_fun_ref_t" -> Ty("T", "cptr")
CallType(cls) ==
    CASE cls = "mem_fun_t"           -> "->*"
      [] cls = "const_mem_fun_t"     -> "->*"
      [] cls = "mem_fun_ref_t"       -> ".*"
      [] cls = "const_mem_fun_ref_t" -> ".*"

(* the macro arguments of the four EXT_MEM_FUN_T instantiations, lines 263-266 *)
ExtArgType(cls) ==
    CASE cls = "ext_mem_fun_t"         -> Ty("int", "ref")
      [] cls = "ext_mem_funbv_t"       -> Ty("int", "val")
      [] cls = "const_ext_mem_fun_t"   -> Ty("int", "cref")
      [] cls = "const_ext_mem_funbv_t" -> Ty("int", "val")

(* const X& for a parameter type X: a const reference to a value type; a
   reference stays the reference it is (reference collapsing) and a pointer
   is still passed as a pointer *)
AddCRef(ty) == IF ty.q = "val" THEN Ty(ty.t, "cref") ELSE ty

(* The signature tag a functor exposes: the base class it derives from
   (void_function, unary_function, binary_function, lines 44-60) with the
   template arguments the class passes to it. *)
unary_function(Arg, Result) == [arity |-> 1, args |-> <<Arg>>, result |-> Result]
binary_function(Arg1, Arg2, Result) == [arity |-> 2, args |-> <<Arg1, Arg2>>, result |-> Result]

StdResult(cls, T) ==
    IF cls = "compare" THEN Ty("int", "val")
    ELSE IF cls \in CmpClasses THEN Ty("bool", "val")
    ELSE Ty(T, "val")

RECURSIVE Tag(_)
Tag(f) ==
    CASE f.cls \in Std2Classes -> binary_function(Ty(f.T, "val"), Ty(f.T, "val"), StdResult(f.cls, f.T))
      [] f.cls \in Std1Classes -> unary_function(Ty(f.T, "val"), Ty(f.T, "val"))
      [] f.cls = "functor1" -> unary_function(Ty("int", "val"), Ty("int", "val"))
      [] f.cls = "functor2" -> binary_function(Ty("int", "val"), Ty("int", "val"), Ty("int", "val"))
      [] f.cls = "unary_negate" -> unary_function(Tag(f.m_pfn).args[1], Tag(f.m_pfn).result)
      [] f.cls = "binder1st" -> unary_function(Tag(f.m_pfn).args[2], Tag(f.m_pfn).result)
      [] f.cls = "binder2nd" -> unary_function(Tag(f.m_pfn).args[1], Tag(f.m_pfn).result)
      [] f.cls \in MemFunClasses -> unary_function(ArgType(f.cls), Ty(MethodSig(f.m_pf).ret, "val"))
      [] f.cls \in ExtMemFunClasses -> unary_function(Ty("int", "val"), Ty("void", "val"))
      [] f.cls = "mem_var1_t" -> unary_function(Ty("T", "ref"), Tag(f.m_pfn).result)
      [] f.cls = "const_mem_var1_t" -> unary_function(Ty("T", "cref"), Tag(f.m_pfn).result)
      [] f.cls = "mem_var2_t" -> unary_function(Ty("T", "ref"), Tag(f.m_pfn).result)
      [] f.cls = "const_mem_var2_t" ->
            binary_function(Ty("T", "cref"), Ty("T", "cref"), Tag(f.m_pfn).result)

(* The signature of the class's operator(): parameter types and return type *)
CallSig(f) ==
    CASE f.cls \in Std2Classes ->
            [params |-> <<Ty(f.T, "cref"), Ty(f.T, "cref")>>, ret |-> StdResult(f.cls, f.T)]
      [] f.cls \in Std1Classes -> [params |-> <<Ty(f.T, "cref")>>, ret |-> Ty(f.T, "val")]
      [] f.cls = "functor1" -> [params |-> <<Ty("int", "val")>>, ret |-> Ty("int", "val")]
      [] f.cls = "functor2" ->
            [params |-> <<Ty("int", "val"), Ty("int", "val")>>, ret |-> Ty("int", "val")]
      [] f.cls = "unary_negate" ->
            [params |-> <<AddCRef(Tag(f.m_pfn).args[1])>>, ret |-> Tag(f.m_pfn).result]
      [] f.cls = "binder1st" ->
            [params |-> <<AddCRef(Tag(f.m_pfn).args[2])>>, ret |-> Tag(f.m_pfn).result]
      [] f.cls = "binder2nd" ->
            [params |-> <<AddCRef(Tag(f.m_pfn).args[1])>>, ret |-> Tag(f.m_pfn).result]
      [] f.cls \in MemFunClasses ->
            [params |-> <<ArgType(f.cls)>>, ret |-> Ty(MethodSig(f.m_pf).ret, "val")]
      [] f.cls \in ExtMemFunClasses ->
            [params |-> <<ExtArgType(f.cls)>>, ret |-> Ty(MethodSig(f.m_pf).ret, "val")]
      [] f.cls = "mem_var1_t" -> [params |-> <<Ty("T", "ref")>>, ret |-> Tag(f.m_pfn).result]
      [] f.cls = "const_mem_var1_t" -> [params |-> <<Ty("T", "cref")>>, ret |-> Tag(f.m_pfn).result]
      [] f.cls = "mem_var2_t" ->
            [params |-> <<Ty("T", "ref"), Ty("T", "ref")>>, ret |-> Tag(f.m_pfn).result]
      [] f.cls = "const_mem_var2_t" ->
            [params |-> <<Ty("T", "cref"), Ty("T", "cref")>>, ret |-> Tag(f.m_pfn).result]

----------------------------------------------------------------------------
(* operator().  A call returns the value, the store it leaves, and the
   number n of operator() / function / method applications it made.  A call
   whose body does not compile for the instantiated types is "ill_formed". *)
Ok(v, heap, n) == [st |-> "ok", val |-> v, mem |-> heap, n |-> n]
IllFormed(heap) == [st |-> "ill_formed", val |-> 0, mem |-> heap, n |-> 0]

RECURSIVE Call(_, _, _)

std2_call(f, args, heap) == Ok(Std2(f.cls, f.T, args[1], args[2]), heap, 1)
std1_call(f, args, heap) == Ok(Std1(f.cls, f.T, args[1]), heap, 1)

functor1_call(f, args, heap) == Ok(FnApply1(f.m_pfn, args[1]), heap, 2)
functor2_call(f, args, heap) == Ok(FnApply2(f.m_pfn, args[1], args[2]), heap, 2)

unary_negate_call_plain(f, args, heap) ==
    LET r == Call(f.m_pfn, <<args[1]>>, heap)
    IN  IF r.st # "ok" THEN r ELSE [r EXCEPT !.n = r.n + 1]

unary_negate_call(f, args, heap) ==
    LET r == Call(f.m_pfn, <<args[1]>>, heap)
    IN  IF r.st # "ok" THEN r
        ELSE [r EXCEPT !.val = B2I(~I2B(r.val)), !.n = r.n + 1]

binder1st_call(f, args, heap) ==
    LET r == Call(f.m_pfn, <<f.m_Value, args[1]>>, heap)
    IN  IF r.st # "ok" THEN r ELSE [r EXCEPT !.n = r.n + 1]

binder2nd_call_swapped(f, args, heap) ==
    LET r == Call(f.m_pfn, <<f.m_Value, args[1]>>, heap)
    IN  IF r.st # "ok" THEN r ELSE [r EXCEPT !.n = r.n + 1]

binder2nd_call(f, args, heap) ==
    LET r == Call(f.m_pfn, <<args[1], f.m_Value>>, heap)
    IN  IF r.st # "ok" THEN r ELSE [r EXCEPT !.n = r.n + 1]

(* (p CallType m_pf)() : ->* needs a pointer on its left, .* an object *)
mem_fun_call(f, args, heap) ==
    LET p == args[1]
    IN  IF (CallType(f.cls) = "->*") # IsPtr(ArgType(f.cls)) THEN IllFormed(heap)
        ELSE Ok(MethodRet(f.m_pf, heap[p], 0),
                [heap EXCEPT ![p] = MethodPost(f.m_pf, heap[p], 0)], 2)

ext_mem_fun_call_other(f, args, heap) ==
    LET t == CHOOSE o \in Objs : o # f.m_t
    IN  Ok(MethodRet(f.m_pf, heap[t], args[1]),
           [heap EXCEPT ![t] = MethodPost(f.m_pf, heap[t], args[1])], 2)

(* (m_t->*m_pf)(v) *)
ext_mem_fun_call(f, args, heap) ==
    Ok(MethodRet(f.m_pf, heap[f.m_t], args[1]),
       [heap EXCEPT ![f.m_t] = MethodPost(f.m_pf, heap[f.m_t], args[1])], 2)

mem_var1_call(f, args, heap) ==
    LET r == Call(f.m_pfn, <<MemberOf(heap, args[1], f.m_pv)>>, heap)
    IN  IF r.st # "ok" THEN r ELSE [r EXCEPT !.n = r.n + 1]

mem_var2_call_swapped(f, args, heap) ==
    LET r == Call(f.m_pfn, <<MemberOf(heap, args[2], f.m_pv),
                             MemberOf(heap, args[1], f.m_pv)>>, heap)
    IN  IF r.st # "ok" THEN r ELSE [r EXCEPT !.n = r.n + 1]

mem_var2_call(f, args, heap) ==
    LET r == Call(f.m_pfn, <<MemberOf(heap, args[1], f.m_pv),
                             MemberOf(heap, args[2], f.m_pv)>>, heap)
    IN  IF r.st # "ok" THEN r ELSE [r EXCEPT !.n = r.n + 1]

Call(f, args, heap) ==
    CASE f.cls \in Std2Classes -> std2_call(f, args, heap)
      [] f.cls \in Std1Classes -> std1_call(f, args, heap)
      [] f.cls = "functor1" -> functor1_call(f, args, heap)
      [] f.cls = "functor2" -> functor2_call(f, args, heap)
      [] f.cls = "unary_negate" -> unary_negate_call(f, args, heap)
      [] f.cls = "binder1st" -> binder1st_call(f, args, heap)
      [] f.cls = "binder2nd" -> binder2nd_call(f, args, heap)
      [] f.cls \in MemFunClasses -> mem_fun_call(f, args, heap)
      [] f.cls \in ExtMemFunClasses -> ext_mem_fun_call(f, args, heap)
      [] f.cls \in MemVar1Classes -> mem_var1_call(f, args, heap)
      [] f.cls \in MemVar2Classes -> mem_var2_call(f, args, heap)

----------------------------------------------------------------------------
(* The factory functions.  functor and mem_fun are overloaded on the type of
   the pointer they are given. *)
functor(pfn) == IF FnArity(pfn) = 1 THEN functor1(pfn) ELSE functor2(pfn)
unary_negator(pfn) == unary_negate(pfn)
bind1st(pfn, v) == binder1st(pfn, v)
bind2nd(pfn, v) == binder2nd(pfn, v)

mem_fun(pf) ==
    IF MethodSig(pf).const THEN MemFunT("const_mem_fun_t", pf) ELSE MemFunT("mem_fun_t", pf)
mem_fun_ref(pf) ==
    IF MethodSig(pf).const THEN MemFunT("const_mem_fun_ref_t", pf)
    ELSE MemFunT("mem_fun_ref_t", pf)

(* mem_fun (HostType p, Ret (T::*pf)(ArgType) FuncType) *)
mem_fun_ext(p, pf) ==
    LET sig == MethodSig(pf)
        cls == IF sig.const
               THEN (IF sig.byref THEN "const_ext_mem_fun_t" ELSE "const_ext_mem_funbv_t")
               ELSE (IF sig.byref THEN "ext_mem_fun_t" ELSE "ext_mem_funbv_t")
    IN  ExtMemFunT(cls, p, pf)

mem_var1(mvp, pfn) == mem_var1_t(mvp, pfn)
const_mem_var1(mvp, pfn) == const_mem_var1_t(mvp, pfn)
mem_var2(mvp, pfn) == mem_var2_t(mvp, pfn)
const_mem_var2(mvp, pfn) == const_mem_var2_t(mvp, pfn)

mem_var_equal_to(mvp, v) == const_mem_var1_t(mvp, bind2nd(StdFunctor("equal_to", "int"), v))
mem_var_less_bind1st(mvp, v) == const_mem_var1_t(mvp, bind1st(StdFunctor("less", "int"), v))
mem_var_less(mvp, v) == const_mem_var1_t(mvp, bind2nd(StdFunctor("less", "int"), v))
mem_var_equal_to2(mvp) == const_mem_var2_t(mvp, StdFunctor("equal_to", "int"))
mem_var_less2(mvp) == const_mem_var2_t(mvp, StdFunctor("less", "int"))

----------------------------------------------------------------------------
(* Copy construction and operator=.  The classes that declare them copy
   field by field; the binders and the standard functors use the implicit
   ones, which do the same. *)
IsFunctor(f) == f.cls # "none"
NoFunctor == [cls |-> "none"]

RECURSIVE SameType(_, _)
SameType(a, b) ==
    /\ a.cls = b.cls
    /\ CASE a.cls \in Std2Classes \cup Std1Classes -> a.T = b.T
         [] a.cls = "fnptr" -> FnArity(a) = FnArity(b)
         [] a.cls \in MemFunClasses \cup ExtMemFunClasses ->
                MethodSig(a.m_pf).ret = MethodSig(b.m_pf).ret
         [] OTHER -> SameType(a.m_pfn, b.m_pfn)

functor_copy(v) == [cls |-> v.cls, m_pfn |-> v.m_pfn]
binder_copy(v) == [cls |-> v.cls, m_pfn |-> v.m_pfn, m_Value |-> v.m_Value]
mem_fun_copy(v) == [cls |-> v.cls, m_pf |-> v.m_pf]
ext_mem_fun_copy(v) == [cls |-> v.cls, m_t |-> v.m_t, m_pf |-> v.m_pf]
mem_var_copy(v) == [cls |-> v.cls, m_pv |-> v.m_pv, m_pfn |-> v.m_pfn]

CopyOf(v) ==
    CASE v.cls \in {"functor1", "functor2", "unary_negate"} -> functor_copy(v)
      [] v.cls \in {"binder1st", "binder2nd"} -> binder_copy(v)
      [] v.cls \in MemFunClasses -> mem_fun_copy(v)
      [] v.cls \in ExtMemFunClasses -> ext_mem_fun_copy(v)
      [] v.cls \in MemVar1Classes \cup MemVar2Classes -> mem_var_copy(v)
      [] OTHER -> v

functor_assign(dst, v) == [dst EXCEPT !.m_pfn = v.m_pfn]
binder_assign(dst, v) == [dst EXCEPT !.m_pfn = v.m_pfn, !.m_Value = v.m_Value]
mem_fun_assign(dst, v) == [dst EXCEPT !.m_pf = v.m_pf]
ext_mem_fun_assign(dst, v) == [dst EXCEPT !.m_t = v.m_t, !.m_pf = v.m_pf]
mem_var_assign_pfn_only(dst, v) == [dst EXCEPT !.m_pfn = v.m_pfn]
mem_var_assign(dst, v) == [dst EXCEPT !.m_pv = v.m_pv, !.m_pfn = v.m_pfn]

AssignFrom(dst, v) ==
    CASE v.cls \in {"functor1", "functor2", "unary_negate"} -> functor_assign(dst, v)
      [] v.cls \in {"binder1st", "binder2nd"} -> binder_assign(dst, v)
      [] v.cls \in MemFunClasses -> mem_fun_assign(dst, v)
      [] v.cls \in ExtMemFunClasses -> ext_mem_fun_assign(dst, v)
      [] v.cls \in MemVar1Classes \cup MemVar2Classes -> mem_var_assign(dst, v)
      [] OTHER -> dst

(* the type of the bound value a binder holds (arg1_t / arg2_t m_Value) *)
BoundType(f) ==
    IF f.cls = "binder1st" THEN Tag(f.m_pfn).args[1] ELSE Tag(f.m_pfn).args[2]

(* a class with a reference member has no usable implicit operator= *)
Assignable(f) == ~(f.cls \in {"binder1st", "binder2nd"} /\ IsRef(BoundType(f)))

----------------------------------------------------------------------------
(* The factory calls the callers make.  A call is recorded as the factory's
   name and its arguments: the inner functor or function pointer pfn, the
   value or instance v, the method pointer pf, the member pointer mvp. *)
FactoryCall(by, pfn, v, pf, mvp) == [by |-> by, pfn |-> pfn, v |-> v, pf |-> pf, mvp |-> mvp]

Make(d) ==
    CASE d.by = "std" -> d.pfn
      [] d.by = "functor" -> functor(d.pfn)
      [] d.by = "unary_negator" -> unary_negator(d.pfn)
      [] d.by = "bind1st" -> bind1st(d.pfn, d.v)
      [] d.by = "bind2nd" -> bind2nd(d.pfn, d.v)
      [] d.by = "mem_fun" -> mem_fun(d.pf)
      [] d.by = "mem_fun_ref" -> mem_fun_ref(d.pf)
      [] d.by = "mem_fun_ext" -> mem_fun_ext(d.v, d.pf)
      [] d.by = "mem_var1" -> mem_var1(d.mvp, d.pfn)
      [] d.by = "const_mem_var1" -> const_mem_var1(d.mvp, d.pfn)
      [] d.by = "mem_var2" -> mem_var2(d.mvp, d.pfn)
      [] d.by = "const_mem_var2" -> const_mem_var2(d.mvp, d.pfn)
      [] d.by = "mem_var_equal_to" -> mem_var_equal_to(d.mvp, d.v)
      [] d.by = "mem_var_less" -> mem_var_less(d.mvp, d.v)
      [] d.by = "mem_var_equal_to2" -> mem_var_equal_to2(d.mvp)
      [] d.by = "mem_var_less2" -> mem_var_less2(d.mvp)

IntT == "int"
BinaryInt == {StdFunctor("minus", IntT), StdFunctor("less", IntT), functor(FnPtr("sub"))}
UnaryInt == {functor(FnPtr("square")), StdFunctor("logical_not", IntT)}
                \cup {bind2nd(StdFunctor("less", IntT), v) : v \in Vals}
Methods0Adaptors == {mem_fun(pf) : pf \in Methods0} \cup {mem_fun_ref(pf) : pf \in Methods0}

StdCalls == {FactoryCall("std", StdFunctor(c, T), 0, "", "") :
                c \in Std2Classes \cup Std1Classes, T \in Types}
FnCalls == {FactoryCall("functor", FnPtr(n), 0, "", "") : n \in Fn1 \cup Fn2}
NegatorCalls == {FactoryCall("unary_negator", f, 0, "", "") : f \in UnaryInt \cup Methods0Adaptors}
ValueBinderCalls == {FactoryCall(by, f, v, "", "") :
                        by \in {"bind1st", "bind2nd"}, f \in BinaryInt, v \in Vals}
RefBinderCalls == {FactoryCall(by, const_mem_var2(m, StdFunctor("less", IntT)), o, "", "") :
                      by \in {"bind1st", "bind2nd"}, m \in Members, o \in Objs}
BinderCalls == ValueBinderCalls \cup RefBinderCalls
MethodCalls == {FactoryCall(by, NoFunctor, 0, pf, "") :
                   by \in {"mem_fun", "mem_fun_ref"}, pf \in Methods0}
ExtCalls == {FactoryCall("mem_fun_ext", NoFunctor, p, pf, "") : p \in Objs, pf \in Methods1}
MemVarCalls == {FactoryCall(by, f, 0, "", m) :
                   by \in {"mem_var1", "const_mem_var1"}, f \in UnaryInt, m \in Members}
               \cup {FactoryCall(by, f, 0, "", m) :
                   by \in {"mem_var2", "const_mem_var2"}, f \in BinaryInt, m \in Members}
ConvenienceCalls == {FactoryCall(by, NoFunctor, v, "", m) :
                        by \in {"mem_var_equal_to", "mem_var_less"}, v \in Vals, m \in Members}
                    \cup {FactoryCall(by, NoFunctor, 0, "", m) :
                        by \in {"mem_var_equal_to2", "mem_var_less2"}, m \in Members}

----------------------------------------------------------------------------
(* The state: the store of T instances, two functor objects g and h of the
   caller, and the last call made.  og and oh record what each object was
   constructed from: the factory call and, for a binder of an instance, the
   state the caller's instance had then. *)
NoResult == [who |-> "none", kinds |-> <<>>, args |-> <<>>, st |-> "none", val |-> 0, n |-> 0]
NoCall == FactoryCall("none", NoFunctor, 0, "", "")
NoOrigin == [d |-> NoCall, v0 |-> [x |-> 0, y |-> 0]]

Slot(w) == IF w = "g" THEN g ELSE h
Origin(w) == IF w = "g" THEN og ELSE oh

Init ==
    /\ mem = [o \in Objs |-> IF o = 1 THEN [x |-> 1, y |-> 0] ELSE [x |-> 1, y |-> MaxVal]]
    /\ g = NoFunctor
    /\ h = NoFunctor
    /\ og = NoOrigin
    /\ oh = NoOrigin
    /\ result = NoResult

(* the caller's v as it is when a binder is built from it *)
BoundNow(d) ==
    IF d.by \in {"bind1st", "bind2nd"} /\ BoundType(Make(d)).t = "T"
    THEN mem[d.v] ELSE NoOrigin.v0

(* the caller makes one of the factory calls of S and keeps the functor *)
Construct(S, W) ==
    \E w \in W, d \in S :
        /\ IF w = "g"
           THEN g' = Make(d) /\ og' = [d |-> d, v0 |-> BoundNow(d)] /\ UNCHANGED <<h, oh>>
           ELSE h' = Make(d) /\ oh' = [d |-> d, v0 |-> BoundNow(d)] /\ UNCHANGED <<g, og>>
        /\ result' = NoResult
        /\ UNCHANGED mem

(* one functor is copy-constructed from the other *)
CopyConstruct ==
    \/ /\ IsFunctor(g)
       /\ h' = CopyOf(g) /\ oh' = og
       /\ result' = NoResult
       /\ UNCHANGED <<mem, g, og>>
    \/ /\ IsFunctor(h)
       /\ g' = CopyOf(h) /\ og' = oh
       /\ result' = NoResult
       /\ UNCHANGED <<mem, h, oh>>

(* one functor is assigned to the other, which has the same type *)
Assign ==
    /\ IsFunctor(g) /\ IsFunctor(h)
    /\ SameType(g, h)
    /\ Assignable(g)
    /\ \/ h' = AssignFrom(h, g) /\ oh' = og /\ UNCHANGED <<g, og>>
       \/ g' = AssignFrom(g, h) /\ og' = oh /\ UNCHANGED <<h, oh>>
    /\ result' = NoResult
    /\ UNCHANGED mem

(* what the caller may write as the arguments of a call of f *)
KindsOf(ty) == IF ty.t = "T" THEN {"ptr", "ref"} ELSE {"val"}
KindChoices(params) ==
    IF Len(params) = 1 THEN {<<k>> : k \in KindsOf(params[1])}
    ELSE {<<k1, k2>> : k1 \in KindsOf(params[1]), k2 \in KindsOf(params[2])}
ArgChoices(params) ==
    IF Len(params) = 1 THEN {<<a>> : a \in ArgDomain(params[1])}
    ELSE {<<a, b>> : a \in ArgDomain(params[1]), b \in ArgDomain(params[2])}
ParamKinds(params) == [i \in 1..Len(params) |-> Kind(params[i])]

(* the expression f(args), each argument written as an int, an instance or
   the address of one: it does not compile when an argument does not convert
   to the parameter type *)
CallExpr(f, kinds, args, heap) ==
    IF kinds # ParamKinds(CallSig(f).params) THEN IllFormed(heap)
    ELSE Call(f, args, heap)

(* the caller calls one of its functors *)
Invoke(W) ==
    \E w \in W :
        /\ IsFunctor(Slot(w))
        /\ \E kinds \in KindChoices(CallSig(Slot(w)).params),
              args \in ArgChoices(CallSig(Slot(w)).params) :
              LET r == CallExpr(Slot(w), kinds, args, mem)
              IN  /\ result' = [who |-> w, kinds |-> kinds, args |-> args,
                                st |-> r.st, val |-> r.val, n |-> r.n]
                  /\ mem' = r.mem
        /\ UNCHANGED <<g, h, og, oh>>

(* the caller changes a data member of one of its instances *)
Mutate ==
    \E o \in Objs, m \in Members, v \in Vals :
        /\ mem' = [mem EXCEPT ![o] = IF m = "x" THEN [@ EXCEPT !.x = v] ELSE [@ EXCEPT !.y = v]]
        /\ mem' # mem
        /\ result' = NoResult
        /\ UNCHANGED <<g, h, og, oh>>

One == {"g"}
Both == {"g", "h"}

(* factory calls of every class template, some of them of the same type *)
CoreCalls ==
    FnCalls
    \cup {FactoryCall("std", StdFunctor("less", IntT), 0, "", "")}
    \cup {FactoryCall("unary_negator", mem_fun(pf), 0, "", "") : pf \in {"isEven", "bump"}}
    \cup {FactoryCall("bind1st", StdFunctor("minus", IntT), v, "", "") : v \in Vals}
    \cup {FactoryCall("bind2nd", StdFunctor("minus", IntT), 0, "", "")}
    \cup {FactoryCall("bind1st", const_mem_var2("x", StdFunctor("less", IntT)), o, "", "") :
             o \in Objs}
    \cup {FactoryCall(by, NoFunctor, 0, pf, "") :
             by \in {"mem_fun", "mem_fun_ref"}, pf \in {"isEven", "bump"}}
    \cup {FactoryCall("mem_fun_ext", NoFunctor, 1, pf, "") : pf \in Methods1}
    \cup {FactoryCall("mem_fun_ext", NoFunctor, 2, "addTo", "")}
    \cup {FactoryCall("mem_var1", functor(FnPtr("square")), 0, "", m) : m \in Members}
    \cup {FactoryCall("const_mem_var1", StdFunctor("logical_not", IntT), 0, "", "x")}
    \cup {FactoryCall("mem_var2", StdFunctor("minus", IntT), 0, "", "x")}
    \cup {FactoryCall("mem_var_less2", NoFunctor, 0, "", m) : m \in Members}
    \cup {FactoryCall("mem_var_equal_to", NoFunctor, v, "", "x") : v \in Vals}

NextCmp == Construct(StdCalls, One) \/ Invoke(One)
NextNeg == Construct(NegatorCalls, One) \/ Invoke(One) \/ Mutate
NextBind == Construct(BinderCalls, One) \/ Invoke(One) \/ Mutate
NextMethod == Construct(MethodCalls, One) \/ Invoke(One) \/ Mutate
NextExt == Construct(ExtCalls, One) \/ Invoke(One) \/ Mutate
NextMemVar == Construct(MemVarCalls, One) \/ Invoke(One) \/ Mutate
NextConv == Construct(ConvenienceCalls, One) \/ Invoke(One) \/ Mutate
Next == Construct(CoreCalls, Both) \/ CopyConstruct \/ Assign \/ Invoke(Both)

SpecCmp == Init /\ [][NextCmp]_vars
SpecNeg == Init /\ [][NextNeg]_vars
SpecBind == Init /\ [][NextBind]_vars
SpecMethod == Init /\ [][NextMethod]_vars
SpecExt == Init /\ [][NextExt]_vars
SpecMemVar == Init /\ [][NextMemVar]_vars
SpecConv == Init /\ [][NextConv]_vars
Spec == Init /\ [][Next]_vars

----------------------------------------------------------------------------
(* The last call was w(args) with every argument written as its parameter
   type asks (an int, an instance for a reference, an address for a
   pointer). *)
Called(w) ==
    /\ result.who = w
    /\ IsFunctor(Slot(w))
    /\ result.kinds = ParamKinds(CallSig(Slot(w)).params)

\* C4: the comparison functors are computed from < and == of T alone, also
\* for a T whose < is not total: less(a,b) = (a<b), greater(a,b) = (b<a),
\* equal_to(a,b) = (a==b), not_equal_to(a,b) = !(a==b), greater_equal(a,b) =
\* (b<a || a==b), less_equal(a,b) = (a<b || a==b), and compare(a,b) is -1 if
\* a<b, 0 if a==b and 1 in every other case.
C4_ComparisonFamily ==
    (Called("g") /\ og.d.by = "std" /\ g.cls \in CmpClasses) =>
        LET a == result.args[1]
            b == result.args[2]
            T == og.d.pfn.T
            c == og.d.pfn.cls
        IN  /\ result.st = "ok"
            /\ (c = "less") => (result.val = B2I(Lt(T, a, b)))
            /\ (c = "greater") => (result.val = B2I(Lt(T, b, a)))
            /\ (c = "equal_to") => (result.val = B2I(Eq(T, a, b)))
            /\ (c = "not_equal_to") => (result.val = B2I(~Eq(T, a, b)))
            /\ (c = "greater_equal") => (result.val = B2I(Lt(T, b, a) \/ Eq(T, a, b)))
            /\ (c = "less_equal") => (result.val = B2I(Lt(T, a, b) \/ Eq(T, a, b)))
            /\ (c = "compare") =>
                  (result.val = IF Lt(T, a, b) THEN -1 ELSE IF Eq(T, a, b) THEN 0 ELSE 1)

\* greater_equal applied to two unequal, incomparable values is false
C4_Witness ==
    /\ Called("g")
    /\ og.d.pfn = StdFunctor("greater_equal", "mask")
    /\ result.args = <<1, 2>>
    /\ ~Lt("mask", 1, 2) /\ ~Lt("mask", 2, 1)
    /\ result.val = 0

\* C5: unary_negator(f)(x) equals !f(x); one call of the negator applies f
\* exactly once (f's effect on the store happens once, one more application
\* is counted than f makes), and the negator's declared argument type and
\* result type are the ones f declares.
C5_NegatorLaw ==
    [][(result'.who = "g" /\ og.d.by = "unary_negator"
            /\ result'.kinds = ParamKinds(CallSig(g).params)) =>
          LET inner == Call(og.d.pfn, result'.args, mem)
          IN  /\ result'.st = inner.st
              /\ (inner.st = "ok") =>
                    /\ result'.val = B2I(~I2B(inner.val))
                    /\ mem' = inner.mem
                    /\ result'.n = inner.n + 1
              /\ Tag(g).arity = 1
              /\ Tag(g).args = Tag(og.d.pfn).args
              /\ Tag(g).result = Tag(og.d.pfn).result]_vars

\* the negated isEven adaptor, called with a pointer to an odd instance, is true
C5_Witness ==
    /\ Called("g")
    /\ og.d.by = "unary_negator"
    /\ og.d.pfn = mem_fun("isEven")
    /\ mem[result.args[1]].x % 2 = 1
    /\ result.st = "ok"
    /\ result.val = 1

\* C1: bind1st(f, v)(x) returns f(v, x) and bind2nd(f, v)(x) returns f(x, v),
\* for every 2-argument functor f, bound value v and argument x; the bound
\* value is never put in the other position.
C1_BinderLaws ==
    (Called("g") /\ og.d.by \in {"bind1st", "bind2nd"}) =>
        LET f == og.d.pfn
            v == og.d.v
            x == result.args[1]
        IN  /\ result.st = "ok"
            /\ (og.d.by = "bind1st") => (result.val = Call(f, <<v, x>>, mem).val)
            /\ (og.d.by = "bind2nd") => (result.val = Call(f, <<x, v>>, mem).val)

\* bind2nd(minus, 1)(0) is 0 - 1, not 1 - 0
C1_Witness ==
    /\ Called("g")
    /\ og.d.by = "bind2nd"
    /\ og.d.pfn = StdFunctor("minus", IntT)
    /\ og.d.v = 1
    /\ result.args = <<0>>
    /\ result.val = -1

\* C10: a binder keeps the f and the v it was built from: after the caller
\* changes its v, g(x) still returns f(v0, x) (bind1st) or f(x, v0) (bind2nd)
\* for the value v0 that v had when the binder was built, also when f's
\* argument types are references.
C10_CaptureByValue ==
    (Called("g") /\ og.d.by \in {"bind1st", "bind2nd"}) =>
        LET f == og.d.pfn
            x == result.args[1]
            byInstance == BoundType(g).t = "T"
            \* the store with one more instance, 0: the copy made of v at construction
            heap0 == [o \in Objs \cup {0} |-> IF o = 0 THEN og.v0 ELSE mem[o]]
            v0 == IF byInstance THEN 0 ELSE og.d.v
        IN  /\ result.st = "ok"
            /\ (og.d.by = "bind1st") => (result.val = Call(f, <<v0, x>>, heap0).val)
            /\ (og.d.by = "bind2nd") => (result.val = Call(f, <<x, v0>>, heap0).val)

\* C2: the 1-argument member adaptors (mem_var1, const_mem_var1) give
\* g(obj) = f(obj.m); the 2-argument ones (mem_var2, const_mem_var2) give
\* g(x, y) = f(x.m, y.m): x's member first, y's second, both taken through
\* the same member pointer.
C2_MemberAccessorLaws ==
    (Called("g") /\ og.d.by \in {"mem_var1", "const_mem_var1", "mem_var2", "const_mem_var2"}) =>
        LET f == og.d.pfn
            m == og.d.mvp
        IN  /\ result.st = "ok"
            /\ (og.d.by \in {"mem_var1", "const_mem_var1"}) =>
                  (result.val = Call(f, <<MemberOf(mem, result.args[1], m)>>, mem).val)
            /\ (og.d.by \in {"mem_var2", "const_mem_var2"}) =>
                  (result.val = Call(f, <<MemberOf(mem, result.args[1], m),
                                          MemberOf(mem, result.args[2], m)>>, mem).val)

\* mem_var2(&T::y, minus)(p1, p2) with p1.y > p2.y and p1.x # p1.y is
\* p1.y - p2.y
C2_Witness ==
    /\ Called("g")
    /\ og.d.by = "mem_var2"
    /\ og.d.pfn = StdFunctor("minus", IntT)
    /\ og.d.mvp = "y"
    /\ result.args = <<1, 2>>
    /\ mem[1].y > mem[2].y
    /\ mem[1].x # mem[1].y
    /\ result.val = mem[1].y - mem[2].y

\* C3: the convenience factories add nothing: mem_var_equal_to(m, v)(obj) =
\* (obj.m == v), which is also what const_mem_var1(m, bind2nd(equal_to, v))
\* gives; mem_var_less(m, v)(obj) = (obj.m < v); mem_var_equal_to(m)(x, y) =
\* (x.m == y.m); mem_var_less(m)(x, y) = (x.m < y.m).
C3_ConvenienceCompositions ==
    (Called("g") /\ og.d.by \in {"mem_var_equal_to", "mem_var_less",
                                 "mem_var_equal_to2", "mem_var_less2"}) =>
        LET m == og.d.mvp
            v == og.d.v
            a == MemberOf(mem, result.args[1], m)
        IN  /\ result.st = "ok"
            /\ (og.d.by = "mem_var_equal_to") =>
                  /\ result.val = B2I(a = v)
                  /\ result.val =
                        CallExpr(const_mem_var1(m, bind2nd(StdFunctor("equal_to", IntT), v)),
                                 result.kinds, result.args, mem).val
            /\ (og.d.by = "mem_var_less") => (result.val = B2I(a < v))
            /\ (og.d.by = "mem_var_equal_to2") =>
                  (result.val = B2I(a = MemberOf(mem, result.args[2], m)))
            /\ (og.d.by = "mem_var_less2") =>
                  (result.val = B2I(a < MemberOf(mem, result.args[2], m)))

\* mem_var_less(&T::y, 1)(p) with p.y = 0 is true: the member is on the left
C3_Witness ==
    /\ Called("g")
    /\ og.d.by = "mem_var_less"
    /\ og.d.mvp = "y"
    /\ og.d.v = 1
    /\ mem[result.args[1]].y = 0
    /\ result.val = 1

\* C7: g = mem_fun(instance, method) calls the method on the instance given
\* at construction and on no other, with the argument v of the call, and
\* returns what the method returns, of the method's return type; v is passed
\* by reference or by value as the variant says.
C7_ExtendedMethodAdaptors ==
    [][(result'.who = "g" /\ og.d.by = "mem_fun_ext"
            /\ result'.kinds = ParamKinds(CallSig(g).params)) =>
          LET p == og.d.v
              pf == og.d.pf
              v == result'.args[1]
          IN  /\ result'.st = "ok"
              /\ result'.val = MethodRet(pf, mem[p], v)
              /\ mem' = [mem EXCEPT ![p] = MethodPost(pf, mem[p], v)]
              /\ CallSig(g).ret = Ty(MethodSig(pf).ret, "val")
              /\ IsRef(CallSig(g).params[1]) = MethodSig(pf).byref]_vars

\* mem_fun(&p2, &T::setX)(0) returned p2's old x, set p2.x and left p1 alone
C7_Witness ==
    /\ Called("g")
    /\ og.d.by = "mem_fun_ext"
    /\ og.d.pf = "setX"
    /\ og.d.v = 2
    /\ result.args = <<0>>
    /\ result.val = 1
    /\ mem[2].x = 0
    /\ mem[1].x = 1

\* C6: the plain method adaptors are a 2x2 family: the two mem_fun variants
\* are called with a pointer p to the instance and return (p->*method)(); the
\* two mem_fun_ref variants are called with the instance itself, by reference,
\* and return (obj.*method)(); in all four the result is the method's result
\* on the receiver given at the call.
C6_MethodAdaptorFamily ==
    (result.who = "g" /\ og.d.by \in {"mem_fun", "mem_fun_ref"}
        /\ result.kinds = <<IF og.d.by = "mem_fun" THEN "ptr" ELSE "ref">>) =>
        LET obj == mem[result.args[1]]
        IN  /\ result.st = "ok"
            /\ MethodSig(og.d.pf).const => (result.val = MethodRet(og.d.pf, obj, 0))
            \* bump returns the x it has just stored
            /\ (og.d.pf = "bump") => (result.val = obj.x)

\* C8: every adaptor exposes the signature tag of its operator(): the unary
\* tag when operator() takes one argument, the binary tag when it takes two,
\* with result_type the type operator() returns.
C8_SignatureTags ==
    \A w \in Both :
        IsFunctor(Slot(w)) =>
            /\ Tag(Slot(w)).arity = Len(CallSig(Slot(w)).params)
            /\ Tag(Slot(w)).result = CallSig(Slot(w)).ret

\* C9: two functors built by the same factory call, one possibly a copy of
\* the other or assigned from it, give the same result for the same
\* arguments whatever calls were made before, and a functor's fields stay
\* what its construction made them: no call changes them.
C9_Idempotence ==
    /\ \A w \in Both : IsFunctor(Slot(w)) => (Slot(w) = Make(Origin(w).d))
    /\ (IsFunctor(g) /\ IsFunctor(h) /\ og.d = oh.d) =>
          \A kinds \in KindChoices(CallSig(g).params), args \in ArgChoices(CallSig(g).params) :
              CallExpr(g, kinds, args, mem) = CallExpr(h, kinds, args, mem)

\* g and h come from the same factory call, h after an assignment or copy,
\* calls have changed the store, and h has just been called
C9_Witness ==
    /\ IsFunctor(g) /\ IsFunctor(h)
    /\ og.d = oh.d
    /\ og.d.by = "mem_var1"
    /\ mem[1].x # 1
    /\ Called("h")
    /\ result.st = "ok"

====
